---- MODULE Spec2Model ----
(***************************************************************************)
(* A model of snorkel/contrib/wclstm/wclstm.py: the WCLSTM instance (its   *)
(* attribute dictionary), the checkpoint directory it saves to and loads   *)
(* from, and the frame of a running train() call.                          *)
(*                                                                         *)
(* A Python string is a sequence of one-character strings, so that         *)
(* concatenation, slicing into n-grams and substring replacement are       *)
(* computed as the code computes them.  A Python dict (kwargs, the         *)
(* instance's __dict__, SymbolTable.d, the file system) is a function      *)
(* whose domain is the set of keys that are present.                       *)
(***************************************************************************)
EXTENDS Integers, Sequences, FiniteSets, TLC

VARIABLES
    self,   \* the instance's attributes: name -> value, for the attributes that are set
    fs,     \* the checkpoint files: <<save_dir, model_name, file>> -> content
    t,      \* the arguments and locals of the instance's most recent train() call
    pc,     \* "idle", or where the running train() call stands: "loop", "conclude"
    last,   \* the most recent call: its name, arguments and how it ended
    raised  \* a train(), load() or create_dict() call on the instance has raised

vars == <<self, fs, t, pc, last, raised>>

----------------------------------------------------------------------------
(* Python dicts *)

Get(d, k, default) == IF k \in DOMAIN d THEN d[k] ELSE default

Put(d, k, v) == (k :> v) @@ d

Del(d, k) == [x \in (DOMAIN d) \ {k} |-> d[x]]

hasattr(obj, k) == k \in DOMAIN obj

EmptyDict == <<>>

RECURSIVE SeqToSet(_)
SeqToSet(s) ==
    IF s = <<>> THEN {} ELSE {Head(s)} \cup SeqToSet(Tail(s))

RECURSIVE Flatten(_)
Flatten(ss) ==
    IF ss = <<>> THEN <<>> ELSE Head(ss) \o Flatten(Tail(ss))

----------------------------------------------------------------------------
(* Strings *)

Chr(c) == <<c>>

\* list(s): the characters of s, each a string of length one
list(s) == [i \in 1..Len(s) |-> Chr(s[i])]

\* ' '.join(words)
RECURSIVE join_space(_)
join_space(words) ==
    IF words = <<>> THEN <<>>
    ELSE IF Len(words) = 1 THEN Head(words)
    ELSE Head(words) \o <<" ">> \o join_space(Tail(words))

\* s.replace(key, val), for a non-empty key: leftmost non-overlapping occurrences
RECURSIVE str_replace(_, _, _)
str_replace(s, key, val) ==
    IF Len(s) < Len(key) THEN s
    ELSE IF SubSeq(s, 1, Len(key)) = key
         THEN val \o str_replace(SubSeq(s, Len(key) + 1, Len(s)), key, val)
         ELSE <<Head(s)>> \o str_replace(Tail(s), key, val)

\* for key in self.replace.keys(): word = word.replace(key, self.replace[key])
\* (the dict is given as the sequence of its <<key, value>> pairs in iteration order)
RECURSIVE apply_replace(_, _)
apply_replace(word, pairs) ==
    IF pairs = <<>> THEN word
    ELSE apply_replace(str_replace(word, Head(pairs)[1], Head(pairs)[2]), Tail(pairs))

----------------------------------------------------------------------------
(* Class attributes of WCLSTM *)

name == "WCLSTM"

char_marker == << <<"<">>, <<">">> >>

unknown_symbol == 1

\* the word paddings ['~~[[1', '1]]~~', '~~[[2', '2]]~~']
Opener(k) == <<"~", "~", "[", "[", k>>

Closer(k) == <<k, "]", "]", "~", "~">>

word_paddings == <<Opener("1"), Closer("1"), Opener("2"), Closer("2")>>

----------------------------------------------------------------------------
(* SymbolTable (utils.py of the package): s is the next free ID, d maps a   *)
(* token to its ID.  IDs 0 and 1 are reserved (padding, unknown).          *)

SymbolTable == [s |-> unknown_symbol + 1, d |-> EmptyDict]

st_get(tab, w) ==
    IF w \in DOMAIN tab.d THEN tab
    ELSE [s |-> tab.s + 1, d |-> Put(tab.d, w, tab.s)]

st_lookup(tab, w) == Get(tab.d, w, unknown_symbol)

\* map(tab.get, ws): Python 2's map is eager, every element is inserted in order
RECURSIVE map_get(_, _)
map_get(tab, ws) ==
    IF ws = <<>> THEN tab ELSE map_get(st_get(tab, Head(ws)), Tail(ws))

\* the tokens of a table in the order of their IDs
st_tokens(tab) ==
    [i \in 1..(tab.s - (unknown_symbol + 1)) |->
        CHOOSE w \in DOMAIN tab.d : tab.d[w] = i + unknown_symbol]

----------------------------------------------------------------------------
(* Candidates (the collaborator contract): the parent sentence's tokens    *)
(* and one or two argument spans <<word_start, word_end>>.                 *)

candidate_to_tokens(c) == c.words

IdxChr(k) == IF k = 1 THEN "1" ELSE "2"

\* the markers mark_sentence puts in front of position p (0-based): the closing
\* markers of the arguments that end at p - 1, then the opening markers of those
\* that start at p
MarksAt(args, p) ==
    Flatten([i \in 1..Len(args) |->
                IF args[i][2] + 1 = p THEN <<Closer(IdxChr(args[i][3]))>> ELSE <<>>])
    \o Flatten([i \in 1..Len(args) |->
                IF args[i][1] = p THEN <<Opener(IdxChr(args[i][3]))>> ELSE <<>>])

RECURSIVE mark_from(_, _, _)
mark_from(s, args, p) ==
    IF p > Len(s) THEN <<>>
    ELSE MarksAt(args, p)
         \o (IF p < Len(s) THEN <<s[p + 1]>> ELSE <<>>)
         \o mark_from(s, args, p + 1)

mark_sentence(s, args) == mark_from(s, args, 0)

\* the marked sentence of a candidate: args carries the argument index 1 or 2
marked(c) ==
    mark_sentence(candidate_to_tokens(c),
                  [i \in 1..Len(c.spans) |-> <<c.spans[i][1], c.spans[i][2], i>>])

\* the char n-grams of one token of the marked sentence
ngrams(w, char_gram) ==
    LET word == char_marker[1] \o w \o char_marker[2]
    IN  [i \in 1..(Len(word) - char_gram + 1) |-> SubSeq(word, i, i + char_gram - 1)]

\* lines 34-42 of _preprocess_data: the tables that do not exist are created,
\* with their paddings
with_word_dict(obj) ==
    IF hasattr(obj, "word_dict") THEN obj
    ELSE Put(obj, "word_dict", map_get(SymbolTable, word_paddings))

with_char_dict(obj) ==
    IF hasattr(obj, "char_dict") THEN obj
    ELSE Put(obj, "char_dict", map_get(SymbolTable, char_marker))

SentsOf(candidates) == [i \in 1..Len(candidates) |-> marked(candidates[i])]

GramsOf(sents, char_gram) ==
    [i \in 1..Len(sents) |-> [j \in 1..Len(sents[i]) |-> ngrams(sents[i][j], char_gram)]]

\* the ID sequences of lines 59 and 69, looked up in the tables wd and cd
encode(obj, sents, grams, wd, cd) ==
    [obj |-> Put(Put(obj, "word_dict", wd), "char_dict", cd),
     X_w |-> [i \in 1..Len(sents) |->
                [j \in 1..Len(sents[i]) |-> st_lookup(wd, sents[i][j])]],
     X_c |-> [i \in 1..Len(sents) |->
                [j \in 1..Len(sents[i]) |->
                    [k \in 1..Len(grams[i][j]) |-> st_lookup(cd, grams[i][j][k])]]]]

\* lines 44-71: every token and every char n-gram goes through get (extend) or
\* lookup
preprocess_tokens(obj, sents, grams, extend) ==
    encode(obj, sents, grams,
           IF extend THEN map_get(obj.word_dict, Flatten(sents)) ELSE obj.word_dict,
           IF extend
           THEN map_get(obj.char_dict, Flatten([i \in 1..Len(grams) |-> Flatten(grams[i])]))
           ELSE obj.char_dict)

preprocess_sents(obj, sents, extend) ==
    preprocess_tokens(obj, sents, GramsOf(sents, obj.char_gram), extend)

\* _preprocess_data(candidates, extend): the instance afterwards and the two ID
\* sequences per candidate
preprocess_data(obj, candidates, extend) ==
    preprocess_sents(with_char_dict(with_word_dict(obj)), SentsOf(candidates), extend)

\* _marginals_batch with the dev candidates added to the tables
marginals_batch_extending(obj, X) == preprocess_data(obj, X, TRUE)

\* _marginals_batch(X), line 480: the candidates are encoded with extend=False
marginals_batch(obj, X) == preprocess_data(obj, X, FALSE)

----------------------------------------------------------------------------
(* create_dict *)

NoExc == "ok"

\* the words, resp. the characters of ' '.join(words), of a sequence of candidates
WordsOf(cands) == Flatten([i \in 1..Len(cands) |-> candidate_to_tokens(cands[i])])

CharsOf(cands) ==
    Flatten([i \in 1..Len(cands) |-> list(join_space(candidate_to_tokens(cands[i])))])

\* lines 84-96: the tables are replaced; the char paddings go through
\* self.char_dict_all.get, the get of a plain dict, which inserts nothing
create_dict_init(obj, word, char) ==
    LET o1 == IF word
              THEN Put(Put(obj, "word_dict", map_get(SymbolTable, word_paddings)),
                       "word_dict_all", {})
              ELSE obj
    IN  IF char
        THEN Put(Put(o1, "char_dict", SymbolTable), "char_dict_all", {})
        ELSE o1

\* lines 99-102: the training vocabulary
create_dict_train(obj, train, word, char) ==
    LET o1 == IF word
              THEN Put(obj, "word_dict", map_get(obj.word_dict, WordsOf(train)))
              ELSE obj
    IN  IF char
        THEN Put(o1, "char_dict", map_get(o1.char_dict, CharsOf(train)))
        ELSE o1

\* lines 105-111: the dev/test vocabulary; both updates are guarded by `word`
create_dict_test(obj, cands, word, char) ==
    IF ~word \/ cands = <<>> THEN [obj |-> obj, exc |-> NoExc]
    ELSE IF ~hasattr(obj, "char_dict_all")
    THEN [obj |-> Put(obj, "word_dict_all",
                      obj.word_dict_all \cup SeqToSet(candidate_to_tokens(cands[1]))),
          exc |-> "AttributeError"]
    ELSE [obj |-> Put(Put(obj, "word_dict_all",
                          obj.word_dict_all \cup SeqToSet(WordsOf(cands))),
                      "char_dict_all",
                      obj.char_dict_all \cup SeqToSet(CharsOf(cands))),
          exc |-> NoExc]

\* the two prints, lines 113-114
create_dict_print(r) ==
    IF r.exc # NoExc THEN r
    ELSE IF hasattr(r.obj, "word_dict") /\ hasattr(r.obj, "word_dict_all") THEN r
    ELSE [obj |-> r.obj, exc |-> "AttributeError"]

\* splits is {"train": candidates, "test": a list of candidate sets}
create_dict(obj, splits, word, char) ==
    create_dict_print(
        create_dict_test(
            create_dict_train(create_dict_init(obj, word, char), splits.train, word, char),
            Flatten(splits.test), word, char))

----------------------------------------------------------------------------
(* The pretrained-embedding files.  A path is [file, ext]; the path None is *)
(* NonePath.  A line, after strip().split(' '), is its token and the list  *)
(* of its numbers.                                                         *)

NonePath == [none |-> TRUE]

Path(file, ext) == [file |-> file, ext |-> ext]

Line(tok, vec) == [tok |-> tok, vec |-> vec]

A == <<"a">>

B == <<"b">>

C == <<"c">>

Hash == <<"#">>

\* the files on disk: words.txt, its fastText variant words.vec (a header line
\* first), chars.txt, again.txt in which a token has two lines, forms.txt in
\* which a placeholder stands for a token that has a line of its own, and
\* wide.txt whose vectors have two numbers
EmbFiles ==
    (Path("words", "txt") :> <<Line(A, <<11>>), Line(B, <<12>>)>>)
    @@ (Path("words", "vec") :> <<Line(<<"2">>, <<1>>), Line(A, <<11>>), Line(B, <<12>>)>>)
    @@ (Path("chars", "txt") :> <<Line(<<"a">>, <<21>>), Line(<<"<">>, <<22>>)>>)
    @@ (Path("again", "txt") :> <<Line(A, <<31>>), Line(C, <<32>>), Line(A, <<33>>)>>)
    @@ (Path("forms", "txt") :> <<Line(B, <<41>>), Line(Hash, <<42>>)>>)
    @@ (Path("wide", "txt") :> <<Line(A, <<51, 52>>)>>)

\* the lines the loops look at: the first line of a fastText file is skipped
EmbLines(path) ==
    IF path.ext = "vec" THEN Tail(EmbFiles[path]) ELSE EmbFiles[path]

\* the index of the first line whose width is not dim + 1; 0 when there is none
FirstBadLine(lines, dim) ==
    IF \E i \in 1..Len(lines) : Len(lines[i].vec) + 1 # dim + 1
    THEN CHOOSE i \in 1..Len(lines) :
            /\ Len(lines[i].vec) + 1 # dim + 1
            /\ \A j \in 1..(i - 1) : Len(lines[j].vec) + 1 = dim + 1
    ELSE 0

\* the tokens, after placeholder substitution, of the lines that are in `all`
RECURSIVE Covered(_, _, _)
Covered(lines, pairs, all) ==
    IF lines = <<>> THEN <<>>
    ELSE LET word == apply_replace(Head(lines).tok, pairs)
         IN  (IF word \in all THEN <<word>> ELSE <<>>) \o Covered(Tail(lines), pairs, all)

\* lines 118-122 of load_dict: the tables are created when they do not exist
load_dict_ensure(obj) ==
    Put(Put(obj, "word_dict", Get(obj, "word_dict", SymbolTable)),
        "char_dict", Get(obj, "char_dict", SymbolTable))

\* lines 124-128: the paddings go through get
load_dict_paddings(obj) ==
    Put(Put(obj, "word_dict", map_get(obj.word_dict, word_paddings)),
        "char_dict", map_get(obj.char_dict, char_marker))

load_dict_tables(obj) == load_dict_paddings(load_dict_ensure(obj))

\* the list l of the word loop, lines 136-147, and of the char loop, 160-169
word_list(obj) ==
    IF hasattr(obj, "word_dict_all")
    THEN Covered(EmbLines(obj.word_emb_path), obj.replace, obj.word_dict_all)
    ELSE <<>>

char_list(obj) ==
    IF hasattr(obj, "char_dict_all")
    THEN Covered(EmbLines(obj.char_emb_path), obj.replace, obj.char_dict_all)
    ELSE <<>>

\* lines 157-172: the char embeddings
load_dict_chars(obj, n) ==
    IF obj.char_emb_path = NonePath
    THEN [obj |-> obj, exc |-> "TypeError", n |-> n]          \* open(None)
    ELSE IF obj.char_emb_path \notin DOMAIN EmbFiles
    THEN [obj |-> obj, exc |-> "IOError", n |-> n]
    ELSE IF FirstBadLine(EmbLines(obj.char_emb_path), obj.char_emb_dim) # 0
    THEN [obj |-> obj, exc |-> "AssertionError", n |-> n]
    ELSE [obj |-> Put(obj, "char_dict", map_get(obj.char_dict, char_list(obj))),
          exc |-> NoExc, n |-> n]

\* lines 149-155: l goes into the table, n and N are printed
load_dict_count(obj, l) ==
    IF hasattr(obj, "word_dict_all") /\ obj.word_dict_all = {}
    THEN [obj |-> Put(obj, "word_dict", map_get(obj.word_dict, l)),
          exc |-> "ZeroDivisionError", n |-> Len(l)]      \* n / float(N), line 153
    ELSE load_dict_chars(Put(obj, "word_dict", map_get(obj.word_dict, l)), Len(l))

\* lines 130-147: the word embeddings
load_dict_words(obj) ==
    IF ~hasattr(obj, "word_emb_path")
    THEN [obj |-> obj, exc |-> "AttributeError", n |-> 0]
    ELSE IF obj.word_emb_path = NonePath
    THEN [obj |-> obj, exc |-> "TypeError", n |-> 0]          \* open(None)
    ELSE IF obj.word_emb_path \notin DOMAIN EmbFiles
    THEN [obj |-> obj, exc |-> "IOError", n |-> 0]
    ELSE IF FirstBadLine(EmbLines(obj.word_emb_path), obj.word_emb_dim) # 0
    THEN [obj |-> obj, exc |-> "AssertionError", n |-> 0]
    ELSE load_dict_count(obj, word_list(obj))

\* load_dict: the instance afterwards, how the call ended, and n, the coverage
\* count it prints
load_dict(obj) == load_dict_words(load_dict_tables(obj))

\* lines 150-153: n is printed when the word loop came to its end, there is a
\* dev/test vocabulary, and the percentage n / float(N) can be formed
count_printed(obj) ==
    /\ hasattr(obj, "word_emb_path")
    /\ obj.word_emb_path \in DOMAIN EmbFiles
    /\ FirstBadLine(EmbLines(obj.word_emb_path), obj.word_emb_dim) = 0
    /\ hasattr(obj, "word_dict_all")
    /\ obj.word_dict_all # {}

\* a row of an embedding matrix: row i of the random initialisation, or the
\* numbers of a line of the file
RandRow(i) == [src |-> "rand", v |-> <<i>>]

FileRow(vec) == [src |-> "file", v |-> vec]

\* the overwriting loop without the test against unknown_symbol: the line of a
\* token that is not in the table goes into the row of the unknown ID
RECURSIVE fill_emb_unchecked(_, _, _, _)
fill_emb_unchecked(emb, lines, pairs, tab) ==
    IF lines = <<>> THEN emb
    ELSE fill_emb_unchecked(
             [emb EXCEPT ![st_lookup(tab, apply_replace(Head(lines).tok, pairs))]
                            = FileRow(Head(lines).vec)],
             Tail(lines), pairs, tab)

\* the overwriting loop of load_embeddings over the lines of one file
RECURSIVE fill_emb(_, _, _, _)
fill_emb(emb, lines, pairs, tab) ==
    IF lines = <<>> THEN emb
    ELSE LET tok == apply_replace(Head(lines).tok, pairs)
         IN  fill_emb(IF st_lookup(tab, tok) # unknown_symbol
                      THEN [emb EXCEPT ![tab.d[tok]] = FileRow(Head(lines).vec)]
                      ELSE emb,
                      Tail(lines), pairs, tab)

\* lines 177-181: the random matrices, sized to the tables
random_emb(tab) == [i \in 0..(tab.s - 1) |-> RandRow(i)]

\* lines 183-210
load_emb_fill(obj) ==
    Put(Put(obj, "word_emb",
            fill_emb(random_emb(obj.word_dict), EmbLines(obj.word_emb_path),
                     obj.replace, obj.word_dict)),
        "char_emb",
        fill_emb(random_emb(obj.char_dict), EmbLines(obj.char_emb_path),
                 obj.replace, obj.char_dict))

load_emb_after(r) ==
    IF r.exc # NoExc THEN [obj |-> r.obj, exc |-> r.exc]
    ELSE [obj |-> load_emb_fill(r.obj), exc |-> NoExc]

load_embeddings(obj) == load_emb_after(load_dict(obj))

----------------------------------------------------------------------------
(* _init_kwargs *)

\* the options the model reads, with the defaults of lines 255-307 (lr,
\* attention, dropout, batch_size, rebalance, lstm_hidden_dim, bidirectional,
\* max_sentence_length, max_word_length and host_device are set the same way
\* and read by nothing modelled here)
Defaults ==
    [load_emb |-> FALSE, word_emb_dim |-> 300, char_emb_dim |-> 300,
     word_emb_path |-> NonePath, char_emb_path |-> NonePath,
     n_epochs |-> 100, char_gram |-> 3, replace |-> <<>>, patience |-> 100]

ConfigKeys == DOMAIN Defaults

\* self.<k> = kwargs.get(k, default) for every option
set_options(obj, kwargs) ==
    [k \in (DOMAIN obj) \cup ConfigKeys |->
        IF k \in ConfigKeys THEN Get(kwargs, k, Defaults[k]) ELSE obj[k]]

\* lines 329-334: the two asserts, then the del; self.model_kwargs is kwargs
\* itself, so the key goes from both
init_kwargs_end(obj, kwargs) ==
    IF obj.load_emb /\ (obj.word_emb_path = NonePath \/ obj.char_emb_path = NonePath)
    THEN [obj |-> obj, exc |-> "AssertionError"]
    ELSE [obj |-> Put(obj, "model_kwargs", Del(kwargs, "init_pretrained")), exc |-> NoExc]

init_kwargs_options(r, kwargs) ==
    IF r.exc # NoExc THEN r ELSE init_kwargs_end(set_options(r.obj, kwargs), kwargs)

\* lines 249-252
init_kwargs_dict(obj, kwargs) ==
    IF hasattr(kwargs, "init_pretrained")
    THEN create_dict(obj, kwargs.init_pretrained, TRUE, TRUE)
    ELSE [obj |-> obj, exc |-> NoExc]

init_kwargs(obj, kwargs) ==
    init_kwargs_options(init_kwargs_dict(Put(obj, "model_kwargs", kwargs), kwargs), kwargs)

----------------------------------------------------------------------------
(* The two networks.  A network is what its constructor was given          *)
(* (num_tokens), the embedding weights copied into its lookup layer (none  *)
(* when they are left at their random initialisation) and the number of    *)
(* training epochs its parameters have been through.                       *)

Net(num_tokens, weights) == [num_tokens |-> num_tokens, lookup |-> weights, steps |-> 0]

NoWeights == <<>>

\* one epoch of train_model over the batches of the data loader
train_epoch(net, n_examples) ==
    IF n_examples = 0 THEN net ELSE [net EXCEPT !.steps = @ + 1]

\* lines 403-427
build_models(obj) ==
    Put(Put(obj, "char_model",
            Net(obj.char_dict.s, IF obj.load_emb THEN <<obj.char_emb>> ELSE NoWeights)),
        "word_model",
        Net(obj.word_dict.s, IF obj.load_emb THEN <<obj.word_emb>> ELSE NoWeights))

----------------------------------------------------------------------------
(* save and load.  A file holds <<v>>, the object v serialised into it, or *)
(* <<>> when it was opened for writing and nothing was written.            *)

KwargsFile == "model_kwargs.pkl"

DictsFile == "model_dicts.pkl"

WordFile == "_word_model"     \* model_name + '_word_model'

CharFile == "_char_model"     \* model_name + '_char_model'

FileOf(save_dir, model_name, f) == <<save_dir, model_name, f>>

dump(v) == <<v>>

\* model_dicts.pkl without the embedding matrices
dicts_to_save_tables(obj) ==
    [char_dict |-> obj.char_dict, word_dict |-> obj.word_dict]

\* the dict save() pickles into model_dicts.pkl
dicts_to_save(obj) ==
    IF obj.load_emb
    THEN [char_dict |-> obj.char_dict, word_dict |-> obj.word_dict,
          char_emb |-> obj.char_emb, word_emb |-> obj.word_emb]
    ELSE [char_dict |-> obj.char_dict, word_dict |-> obj.word_dict]

DictsAttrs(obj) ==
    IF obj.load_emb THEN {"char_dict", "word_dict", "char_emb", "word_emb"}
    ELSE {"char_dict", "word_dict"}

\* torch.save(self.char_model, ...), line 542
save_char_model(obj, files, save_dir, model_name) ==
    IF ~hasattr(obj, "char_model") THEN [fs |-> files, exc |-> "AttributeError"]
    ELSE [fs |-> Put(files, FileOf(save_dir, model_name, CharFile), dump(obj.char_model)),
          exc |-> NoExc]

\* the two torch.save calls, lines 541-542
save_models(obj, files, save_dir, model_name) ==
    IF ~hasattr(obj, "word_model") THEN [fs |-> files, exc |-> "AttributeError"]
    ELSE save_char_model(obj,
             Put(files, FileOf(save_dir, model_name, WordFile), dump(obj.word_model)),
             save_dir, model_name)

\* lines 531-539: model_dicts.pkl is opened for writing, then the dict is built
save_dicts(obj, files, save_dir, model_name) ==
    IF ~hasattr(obj, "load_emb") THEN [fs |-> files, exc |-> "AttributeError"]
    ELSE IF ~(DictsAttrs(obj) \subseteq DOMAIN obj)
    THEN [fs |-> Put(files, FileOf(save_dir, model_name, DictsFile), <<>>),
          exc |-> "AttributeError"]
    ELSE save_models(obj,
             Put(files, FileOf(save_dir, model_name, DictsFile), dump(dicts_to_save(obj))),
             save_dir, model_name)

\* save(model_name, save_dir, only_param): the files afterwards and how it ended
save(obj, files, model_name, save_dir, only_param) ==
    IF only_param THEN save_models(obj, files, save_dir, model_name)
    ELSE IF ~hasattr(obj, "model_kwargs")
    THEN [fs |-> Put(files, FileOf(save_dir, model_name, KwargsFile), <<>>),
          exc |-> "AttributeError"]
    ELSE save_dicts(obj,
             Put(files, FileOf(save_dir, model_name, KwargsFile), dump(obj.model_kwargs)),
             save_dir, model_name)

\* torch.load of the char model, line 574
load_char_model(obj, files, save_dir, model_name, opened) ==
    IF FileOf(save_dir, model_name, CharFile) \notin DOMAIN files
    THEN [obj |-> obj, exc |-> "IOError", opened |-> opened]
    ELSE [obj |-> Put(obj, "char_model", files[FileOf(save_dir, model_name, CharFile)][1]),
          exc |-> NoExc, opened |-> opened \cup {CharFile}]

\* the two torch.load calls, lines 573-574
load_models(obj, files, save_dir, model_name, opened) ==
    IF FileOf(save_dir, model_name, WordFile) \notin DOMAIN files
    THEN [obj |-> obj, exc |-> "IOError", opened |-> opened]
    ELSE load_char_model(
             Put(obj, "word_model", files[FileOf(save_dir, model_name, WordFile)][1]),
             files, save_dir, model_name, opened \cup {WordFile})

\* the assignments of lines 562-565 and 570-571 from the unpickled dict d
assign_dicts(obj, d) ==
    IF ~obj.load_emb
    THEN [obj |-> Put(Put(obj, "char_dict", d.char_dict), "word_dict", d.word_dict),
          exc |-> NoExc]
    ELSE IF ~hasattr(d, "char_emb")
    THEN [obj |-> Put(Put(obj, "char_dict", d.char_dict), "word_dict", d.word_dict),
          exc |-> "KeyError"]
    ELSE [obj |-> Put(Put(Put(Put(obj, "char_dict", d.char_dict), "word_dict", d.word_dict),
                          "char_emb", d.char_emb),
                      "word_emb", d.word_emb),
          exc |-> NoExc]

load_after_dicts(r, files, save_dir, model_name) ==
    IF r.exc # NoExc THEN [obj |-> r.obj, exc |-> r.exc, opened |-> {KwargsFile, DictsFile}]
    ELSE load_models(r.obj, files, save_dir, model_name, {KwargsFile, DictsFile})

\* lines 558-571: the tables, and the matrices when load_emb is set
load_dicts(obj, files, save_dir, model_name) ==
    IF FileOf(save_dir, model_name, DictsFile) \notin DOMAIN files
    THEN [obj |-> obj, exc |-> "IOError", opened |-> {KwargsFile}]
    ELSE IF files[FileOf(save_dir, model_name, DictsFile)] = <<>>
    THEN [obj |-> obj, exc |-> "EOFError", opened |-> {KwargsFile, DictsFile}]
    ELSE load_after_dicts(
             assign_dicts(obj, files[FileOf(save_dir, model_name, DictsFile)][1]),
             files, save_dir, model_name)

load_after_kwargs(r, files, save_dir, model_name) ==
    IF r.exc # NoExc THEN [obj |-> r.obj, exc |-> r.exc, opened |-> {KwargsFile}]
    ELSE load_dicts(r.obj, files, save_dir, model_name)

\* a load that takes the whole checkpoint whatever only_param says
load_whole(obj, files, model_name, save_dir, only_param) ==
    IF FileOf(save_dir, model_name, KwargsFile) \notin DOMAIN files
    THEN [obj |-> obj, exc |-> "IOError", opened |-> {}]
    ELSE IF files[FileOf(save_dir, model_name, KwargsFile)] = <<>>
    THEN [obj |-> obj, exc |-> "EOFError", opened |-> {KwargsFile}]
    ELSE load_after_kwargs(
             init_kwargs(obj, files[FileOf(save_dir, model_name, KwargsFile)][1]),
             files, save_dir, model_name)

\* load(model_name, save_dir, only_param): the instance afterwards, how it ended
\* and the files it opened
load(obj, files, model_name, save_dir, only_param) ==
    IF only_param THEN load_models(obj, files, save_dir, model_name, {})
    ELSE IF FileOf(save_dir, model_name, KwargsFile) \notin DOMAIN files
    THEN [obj |-> obj, exc |-> "IOError", opened |-> {}]
    ELSE IF files[FileOf(save_dir, model_name, KwargsFile)] = <<>>
    THEN [obj |-> obj, exc |-> "EOFError", opened |-> {KwargsFile}]
    ELSE load_after_kwargs(
             init_kwargs(obj, files[FileOf(save_dir, model_name, KwargsFile)][1]),
             files, save_dir, model_name)

----------------------------------------------------------------------------
(* The targets of train().  An array is its shape and its rows; a one-     *)
(* dimensional array has rows of one value.  Values are in tenths: 10 is   *)
(* 1.0, 5 is 0.5.                                                          *)

Array1(vals) == [shape |-> <<Len(vals)>>, rows |-> [i \in 1..Len(vals) |-> <<vals[i]>>]]

Array2(rows, k) == [shape |-> <<Len(rows), k>>, rows |-> rows]

RECURSIVE Sum(_)
Sum(row) == IF row = <<>> THEN 0 ELSE Head(row) + Sum(Tail(row))

RowMax(row) == CHOOSE x \in SeqToSet(row) : \A y \in SeqToSet(row) : y <= x

RowMin(row) == CHOOSE x \in SeqToSet(row) : \A y \in SeqToSet(row) : x <= y

\* line 358
target_cardinality(Y) == IF Len(Y.shape) > 1 THEN Y.shape[2] ELSE 2

\* reshape_marginals (snorkel.learning.utils): of a two-column array, the second
\* column as a one-dimensional array; any other array as it is
reshape_marginals(Y) ==
    IF Len(Y.shape) # 1 /\ Y.shape[2] = 2
    THEN Array1([i \in 1..Len(Y.rows) |-> Y.rows[i][2]])
    ELSE Y

\* lines 359-369: how the checks of the targets end; Y is the array after
\* reshape_marginals
check_values(obj, Y) ==
    IF obj.cardinality > 2 /\ ~(\A i \in 1..Len(Y.rows) : Sum(Y.rows[i]) - 10 < 1)
    THEN "ValueError: row-stochastic"
    ELSE IF ~(\A i \in 1..Len(Y.rows) : \A j \in 1..Len(Y.rows[i]) : Y.rows[i][j] >= 0)
    THEN "ValueError: values"
    ELSE NoExc

check_targets(obj, Y_train) ==
    IF target_cardinality(Y_train) # obj.cardinality
    THEN \* the message formats Y_train.shape[1]
         IF Len(Y_train.shape) > 1 THEN "ValueError: cardinality" ELSE "IndexError"
    ELSE check_values(obj, reshape_marginals(Y_train))

\* lines 371-378: the indices of the labeled rows (LabelBalancer without
\* rebalancing keeps the rows that are not at 0.5; the categorical branch keeps
\* the rows that are not flat)
BinaryLabeled(row) == row[1] # 5

CategoricalLabeled(row) == RowMax(row) - RowMin(row) > 0

RECURSIVE Select(_, _, _)
Select(rows, i, binary) ==
    IF i > Len(rows) THEN <<>>
    ELSE (IF (IF binary THEN BinaryLabeled(rows[i]) ELSE CategoricalLabeled(rows[i]))
          THEN <<i>> ELSE <<>>)
         \o Select(rows, i + 1, binary)

train_idxs(obj, Y) == Select(Y.rows, 1, obj.cardinality = 2)

\* lines 379-381: the labeled examples
labeled(X_train, idxs) == [j \in 1..Len(idxs) |-> X_train[idxs[j]]]

with_count(r, n_examples) == [obj |-> r.obj, exc |-> r.exc, n_examples |-> n_examples]

\* lines 389-393
train_embeddings(obj, n_examples) ==
    IF obj.load_emb THEN with_count(load_embeddings(obj), n_examples)
    ELSE [obj |-> obj, exc |-> NoExc, n_examples |-> n_examples]

\* lines 371-393: the labeled examples, the vocabulary and the embeddings
train_data(obj, X) == train_embeddings(preprocess_data(obj, X, TRUE).obj, Len(X))

\* lines 358-393
train_checked(r, X_train, Y_train) ==
    IF r.exc # NoExc THEN [obj |-> r.obj, exc |-> r.exc, n_examples |-> 0]
    ELSE IF check_targets(r.obj, Y_train) # NoExc
    THEN [obj |-> r.obj, exc |-> check_targets(r.obj, Y_train), n_examples |-> 0]
    ELSE train_data(r.obj, labeled(X_train, train_idxs(r.obj, reshape_marginals(Y_train))))

\* train() up to line 393: the options, the checks, the selection of the labeled
\* examples, the vocabulary and the embeddings
train_setup(obj, X_train, Y_train, kwargs) ==
    train_checked(init_kwargs(obj, kwargs), X_train, Y_train)

----------------------------------------------------------------------------
(* The training loop of train(), lines 439-473 *)

None == <<>>

NoEpoch == -1     \* last_epoch_opt = None

\* model_name or self.name
NameOr(model_name) == IF model_name = "" THEN name ELSE model_name

\* line 346
verbose(print_freq) == print_freq > 0

\* line 449: the epochs at which a message is printed and the dev set is scored
is_eval_epoch(print_freq, n_epochs, idx) ==
    verbose(print_freq) /\ ((idx + 1) % print_freq = 0 \/ idx + 1 = n_epochs)

\* idx > dev_ckpt_delay * self.n_epochs, dev_ckpt_delay being delay / 4
past_delay(delay, n_epochs, idx) == idx * 4 > delay * n_epochs

\* improves with >= for >: an equal score is checkpointed again
improves_on_ties(tr, n_epochs, idx, score) ==
    /\ tr.X_dev # None
    /\ tr.dev_ckpt
    /\ past_delay(tr.dev_ckpt_delay, n_epochs, idx)
    /\ score >= tr.dev_score_opt

\* line 458: the score is a new best, to be checkpointed
improves(tr, n_epochs, idx, score) ==
    /\ tr.X_dev # None
    /\ tr.dev_ckpt
    /\ past_delay(tr.dev_ckpt_delay, n_epochs, idx)
    /\ score > tr.dev_score_opt

\* halts with >= for >: the loop breaks one epoch early
halts_at_patience(tr, n_epochs, patience, idx, last_epoch_opt) ==
    /\ last_epoch_opt # NoEpoch
    /\ idx - last_epoch_opt >= patience
    /\ tr.dev_ckpt
    /\ past_delay(tr.dev_ckpt_delay, n_epochs, idx)

\* halts with the epochs counted from the start, not from the last best
halts_from_start(tr, n_epochs, patience, idx, last_epoch_opt) ==
    /\ last_epoch_opt # NoEpoch
    /\ idx > patience
    /\ tr.dev_ckpt
    /\ past_delay(tr.dev_ckpt_delay, n_epochs, idx)

\* line 463: the loop breaks
halts(tr, n_epochs, patience, idx, last_epoch_opt) ==
    /\ last_epoch_opt # NoEpoch
    /\ idx - last_epoch_opt > patience
    /\ tr.dev_ckpt
    /\ past_delay(tr.dev_ckpt_delay, n_epochs, idx)

\* reloads only after an early stop
reloads_after_break(tr) ==
    tr.dev_ckpt /\ tr.X_dev # None /\ verbose(tr.print_freq) /\ tr.broke

\* line 472: the checkpoint is loaded back
reloads(tr) ==
    tr.dev_ckpt /\ tr.X_dev # None /\ verbose(tr.print_freq) /\ tr.dev_score_opt > 0

----------------------------------------------------------------------------
(* The state *)

IsNew(obj) == DOMAIN obj = {"cardinality"}

\* WCLSTM(cardinality=c): the constructor sets no attribute modelled but this
new_instance(c) == [cardinality |-> c]

Call(op, outcome) ==
    [op |-> op, outcome |-> outcome, only_param |-> FALSE, model_name |-> "",
     save_dir |-> "", opened |-> {}, fresh |-> FALSE, printed |-> <<>>,
     args |-> <<>>]

NoTrain ==
    [X_train |-> <<>>, Y_train |-> Array1(<<>>), kwargs |-> EmptyDict, X_dev |-> None,
     print_freq |-> 0, dev_ckpt |-> FALSE, dev_ckpt_delay |-> 0, save_dir |-> "",
     n_examples |-> 0, idx |-> NoEpoch, dev_score_opt |-> 0,
     last_epoch_opt |-> NoEpoch, broke |-> FALSE, result |-> "none", best |-> <<>>,
     scored |-> <<>>, X_w_dev |-> <<>>, X_c_dev |-> <<>>]

Cardinalities == {2, 3}

Init ==
    /\ self \in {new_instance(c) : c \in Cardinalities}
    /\ fs = EmptyDict
    /\ t = NoTrain
    /\ pc = "idle"
    /\ last = Call("new", NoExc)
    /\ raised = FALSE

\* a new instance takes the place of the old one
NewInstance(Cs) ==
    /\ pc = "idle"
    /\ \E c \in Cs : self' = new_instance(c)
    /\ last' = Call("new", NoExc)
    /\ t' = NoTrain
    /\ raised' = FALSE
    /\ UNCHANGED <<fs, pc>>

\* the frame of a train() call at line 441
Frame(X, Y, kw, a, n_examples, result) ==
    [X_train |-> X, Y_train |-> Y, kwargs |-> kw, X_dev |-> a.X_dev,
     print_freq |-> a.print_freq, dev_ckpt |-> a.dev_ckpt,
     dev_ckpt_delay |-> a.dev_ckpt_delay, save_dir |-> a.save_dir,
     n_examples |-> n_examples, idx |-> NoEpoch, dev_score_opt |-> 0,
     last_epoch_opt |-> NoEpoch, broke |-> FALSE, result |-> result, best |-> <<>>,
     scored |-> <<>>, X_w_dev |-> <<>>, X_c_dev |-> <<>>]

\* lines 395-440 after a set-up that ended as r.  With no labeled example left
\* the tensors are empty, which torch.from_numpy refuses in some versions of
\* the library.
TrainEnter(r, X, Y, kw, a) ==
    /\ fs' = fs
    /\ \/ /\ r.exc # NoExc
          /\ t' = Frame(X, Y, kw, a, r.n_examples, r.exc)
          /\ self' = r.obj
          /\ pc' = "idle"
          /\ last' = [Call("train", r.exc) EXCEPT !.fresh = IsNew(self)]
          /\ raised' = TRUE
       \/ /\ r.exc = NoExc /\ r.n_examples = 0
          /\ t' = Frame(X, Y, kw, a, r.n_examples, "RuntimeError")
          /\ self' = r.obj
          /\ pc' = "idle"
          /\ last' = [Call("train", "RuntimeError") EXCEPT !.fresh = IsNew(self)]
          /\ raised' = TRUE
       \/ /\ r.exc = NoExc
          /\ t' = Frame(X, Y, kw, a, r.n_examples, "running")
          /\ self' = build_models(r.obj)
          /\ pc' = IF r.obj.n_epochs = 0 THEN "conclude" ELSE "loop"
          /\ last' = [Call("train", "running") EXCEPT !.fresh = IsNew(self)]
          /\ raised' = raised

\* train(X_train, Y_train, X_dev, Y_dev, print_freq, dev_ckpt, dev_ckpt_delay,
\* save_dir, **kwargs) up to the loop.  Ys, Cands, Kws and Args are the sets
\* the arguments are drawn from.
TrainBegin(Ys, Cands, Kws, Args) ==
    /\ pc = "idle"
    /\ \E Y \in Ys, kw \in Kws, a \in Args :
       \E X \in [1..Len(Y.rows) -> Cands] :
        TrainEnter(train_setup(self, X, Y, kw), X, Y, kw, a)

\* the history of the dev scores of a run.  scored is <<>>, or the score of the
\* dev set at the epoch that has just run; best is <<>>, or the highest score
\* that the dev set got at an epoch past the delay, with the first epoch that
\* got it
seen_best(tr, n_epochs, idx, score, ev) ==
    IF ev /\ tr.X_dev # None /\ past_delay(tr.dev_ckpt_delay, n_epochs, idx)
          /\ (tr.best = <<>> \/ score > tr.best[1])
    THEN <<score, idx>>
    ELSE tr.best

\* line 452: self.score(X_dev, Y_dev) encodes the dev candidates in
\* _marginals_batch; X_w and X_c are empty when the dev set is not scored
dev_scored(obj, tr, ev) ==
    IF ev /\ tr.X_dev # None THEN marginals_batch(obj, tr.X_dev[1])
    ELSE [obj |-> obj, X_w |-> <<>>, X_c |-> <<>>]

\* the end of an iteration, lines 452-465, at epoch idx with dev score `score`;
\* opt is last_epoch_opt after line 461
EpochEnd(obj, idx, score, ev, imp, opt, brk) ==
    /\ self' = dev_scored(obj, t, ev).obj
    /\ fs' = IF imp
             THEN save(dev_scored(obj, t, ev).obj, fs, NameOr(""), t.save_dir, TRUE).fs
             ELSE fs
    /\ t' = [t EXCEPT !.idx = idx,
                      !.dev_score_opt = IF imp THEN score ELSE @,
                      !.last_epoch_opt = opt,
                      !.broke = brk,
                      !.best = seen_best(t, obj.n_epochs, idx, score, ev),
                      !.scored = IF ev /\ t.X_dev # None THEN <<score>> ELSE <<>>,
                      !.X_w_dev = dev_scored(obj, t, ev).X_w,
                      !.X_c_dev = dev_scored(obj, t, ev).X_c]
    /\ pc' = IF brk \/ idx + 1 = obj.n_epochs THEN "conclude" ELSE "loop"
    /\ UNCHANGED <<last, raised>>

EpochCheck(obj, idx, score, ev, imp) ==
    EpochEnd(obj, idx, score, ev, imp, IF imp THEN idx ELSE t.last_epoch_opt,
             ev /\ halts(t, obj.n_epochs, obj.patience, idx,
                         IF imp THEN idx ELSE t.last_epoch_opt))

\* lines 449-456: at an evaluation epoch the message and the dev score
EpochEval(obj, idx, ev, Scores) ==
    IF ev /\ t.n_examples = 0
    THEN \* cost / n_examples, line 450
         /\ self' = obj
         /\ t' = [t EXCEPT !.idx = idx, !.result = "ZeroDivisionError"]
         /\ pc' = "idle"
         /\ last' = [last EXCEPT !.outcome = "ZeroDivisionError"]
         /\ raised' = TRUE
         /\ fs' = fs
    ELSE \E score \in (IF ev /\ t.X_dev # None THEN Scores ELSE {0}) :
            EpochCheck(obj, idx, score, ev, ev /\ improves(t, obj.n_epochs, idx, score))

\* one iteration of the loop, lines 442-465: the batches, then at an evaluation
\* epoch the message, the dev score, the checkpoint and the early stop
TrainEpoch(Scores) ==
    /\ pc = "loop"
    /\ EpochEval(Put(Put(self, "word_model", train_epoch(self.word_model, t.n_examples)),
                     "char_model", train_epoch(self.char_model, t.n_examples)),
                 t.idx + 1,
                 is_eval_epoch(t.print_freq, self.n_epochs, t.idx + 1),
                 Scores)

\* lines 467-473: after the loop
TrainEnd ==
    /\ pc = "conclude"
    /\ self' = IF reloads(t) THEN load(self, fs, NameOr(""), t.save_dir, TRUE).obj
               ELSE self
    /\ pc' = "idle"
    /\ last' = [last EXCEPT !.outcome = NoExc]
    /\ t' = [t EXCEPT !.result = NoExc]
    /\ UNCHANGED <<fs, raised>>

Saved(r, model_name, save_dir, only_param) ==
    /\ fs' = r.fs
    /\ last' = [Call("save", r.exc) EXCEPT !.only_param = only_param,
                                           !.model_name = model_name,
                                           !.save_dir = save_dir,
                                           !.fresh = IsNew(self)]
    /\ UNCHANGED <<self, t, pc, raised>>

\* save(model_name, save_dir, only_param)
Save(Names, Dirs) ==
    /\ pc = "idle"
    /\ \E model_name \in Names, save_dir \in Dirs, only_param \in BOOLEAN :
        Saved(save(self, fs, NameOr(model_name), save_dir, only_param),
              NameOr(model_name), save_dir, only_param)

Loaded(r, model_name, save_dir, only_param) ==
    /\ self' = r.obj
    /\ last' = [Call("load", r.exc) EXCEPT !.only_param = only_param,
                                           !.model_name = model_name,
                                           !.save_dir = save_dir,
                                           !.opened = r.opened,
                                           !.fresh = IsNew(self)]
    /\ raised' = (raised \/ r.exc # NoExc)
    /\ UNCHANGED <<fs, t, pc>>

\* load(model_name, save_dir, only_param)
Load(Names, Dirs) ==
    /\ pc = "idle"
    /\ \E model_name \in Names, save_dir \in Dirs, only_param \in BOOLEAN :
        Loaded(load(self, fs, NameOr(model_name), save_dir, only_param),
               NameOr(model_name), save_dir, only_param)

\* a checkpoint file is deleted from outside
Remove ==
    /\ pc = "idle"
    /\ \E f \in DOMAIN fs : fs' = Del(fs, f)
    /\ last' = Call("remove", NoExc)
    /\ UNCHANGED <<self, t, pc, raised>>

DictCreated(r, splits, word, char) ==
    /\ self' = r.obj
    /\ last' = [Call("create_dict", r.exc)
                    EXCEPT !.fresh = IsNew(self),
                           !.args = [splits |-> splits, word |-> word, char |-> char]]
    /\ raised' = (raised \/ r.exc # NoExc)
    /\ UNCHANGED <<fs, t, pc>>

\* load_dict() called by the user
LoadDict ==
    /\ pc = "idle"
    /\ self' = load_dict(self).obj
    /\ last' = [Call("load_dict", load_dict(self).exc)
                    EXCEPT !.fresh = IsNew(self),
                           !.printed = IF count_printed(self)
                                       THEN <<load_dict(self).n>> ELSE <<>>]
    /\ raised' = (raised \/ load_dict(self).exc # NoExc)
    /\ UNCHANGED <<fs, t, pc>>

\* create_dict(splits, word, char) called by the user
CreateDict(SplitsSet) ==
    /\ pc = "idle"
    /\ \E splits \in SplitsSet, word \in BOOLEAN, char \in BOOLEAN :
        DictCreated(create_dict(self, splits, word, char), splits, word, char)

----------------------------------------------------------------------------
(* The inputs *)

MaxEpochs == 6

MaxPatience == 3

MaxFreq == 3

MaxScore == 2

c1 == [words |-> <<A>>, spans |-> << <<0, 0>> >>]

c2 == [words |-> <<A, B>>, spans |-> << <<0, 0>>, <<1, 1>> >>]

c3 == [words |-> <<A, B, C>>, spans |-> << <<0, 0>>, <<2, 2>> >>]

Splits(train, test) == [train |-> train, test |-> test]

TrainArgs(Freqs, Ckpts, Delays, Devs) ==
    [print_freq : Freqs, dev_ckpt : Ckpts, dev_ckpt_delay : Delays, X_dev : Devs,
     save_dir : {"checkpoints"}]

\* a training run: one train() call on a new instance, over every setting of
\* the loop
LoopKwargs ==
    {[n_epochs |-> n, patience |-> p] : n \in 0..MaxEpochs, p \in 0..MaxPatience}

LoopYs == {Array1(<<10>>), Array2(<< <<10, 0, 0>> >>, 3)}

\* calls of train(), save() and load() on one directory of checkpoints, with
\* files deleted in between and new instances made
Pretrained == Splits(<<c1>>, << <<c2>> >>)

PlainKwargs == [n_epochs |-> 1]

EmbKwargs ==
    [n_epochs |-> 2, load_emb |-> TRUE, word_emb_dim |-> 1, char_emb_dim |-> 1,
     word_emb_path |-> Path("words", "txt"), char_emb_path |-> Path("chars", "txt"),
     init_pretrained |-> Pretrained]

NoPathKwargs == [n_epochs |-> 1, load_emb |-> TRUE, init_pretrained |-> Pretrained]

PersistKwargs == {PlainKwargs, EmbKwargs}

ModelNames == {""}

SaveDirs == {"checkpoints"}

\* train() calls that differ in their targets only
MaxRows == 2

Values == {-5, 0, 5, 10, 15}

Arrays(k) ==
    UNION {{Array2(rows, k) : rows \in [1..n -> [1..k -> Values]]} : n \in 1..MaxRows}

TargetYs ==
    UNION {{Array1(vals) : vals \in [1..n -> Values]} : n \in 1..MaxRows}
    \cup Arrays(2) \cup Arrays(3)

TargetKwargs == {PlainKwargs, [n_epochs |-> 1, init_pretrained |-> Pretrained]}

\* the splits create_dict() is given
DictSplits ==
    {Splits(train, test) : train \in {<<>>, <<c1>>},
                           test \in {<<>>, << <<c1>>, <<c2>> >>}}

DictKwargs == {PlainKwargs, EmbKwargs, NoPathKwargs}

\* train() calls with pretrained embeddings: every word file, with and without
\* a placeholder, with and without a dev/test vocabulary
WordPaths ==
    {Path("words", "txt"), Path("words", "vec"), Path("again", "txt"),
     Path("forms", "txt"), Path("wide", "txt")}

Replaces == {<<>>, << <<Hash, B>> >>}

WithEmb(path, replace) ==
    [n_epochs |-> 2, load_emb |-> TRUE, word_emb_dim |-> 1, char_emb_dim |-> 1,
     word_emb_path |-> path, char_emb_path |-> Path("chars", "txt"),
     replace |-> replace]

EmbSplits == {Splits(<<c1>>, << <<c3>> >>), Splits(<<c2>>, << <<c1>>, <<c2>> >>)}

LoadEmbKwargs ==
    {WithEmb(path, replace) : path \in WordPaths, replace \in Replaces}
    \cup {Put(WithEmb(path, replace), "init_pretrained", splits) :
                path \in WordPaths, replace \in Replaces, splits \in EmbSplits}

NextLoop ==
    \/ IsNew(self) /\ TrainBegin(LoopYs, {c1}, LoopKwargs,
                                 TrainArgs(0..MaxFreq, BOOLEAN, {0, 2, 3}, {None, <<<<c2>>>>}))
    \/ TrainEpoch(0..MaxScore)
    \/ TrainEnd

Spec == Init /\ [][NextLoop]_vars

----------------------------------------------------------------------------
(* The training loop: C1, C2, C3 *)

\* train() has returned
Returned == pc = "idle" /\ t.result = NoExc

\* the loop of the current train() call is over
LoopOver == pc = "conclude" \/ Returned

\* a train() call is running or was made
Called == t.result # "none"

\* epoch i of the current call is one at which the dev set is scored
Evaluated(i) ==
    t.print_freq > 0 /\ ((i + 1) % t.print_freq = 0 \/ i + 1 = self.n_epochs)

\* at epoch i a best epoch is recorded, it lies more than patience epochs back,
\* and i is past the delay
Stale(i) ==
    /\ t.last_epoch_opt # NoEpoch
    /\ i - t.last_epoch_opt > self.patience
    /\ i * 4 > t.dev_ckpt_delay * self.n_epochs

\* the dev evaluations after the last recorded best, up to the last epoch run
EvalsSinceBest == {i \in (t.last_epoch_opt + 1)..t.idx : Evaluated(i)}

\* C1: whenever train() has returned from a run with dev_ckpt on, a dev set and
\* an improvement recorded, word_model and char_model are the networks as they
\* were after epoch last_epoch_opt, the epoch of the best recorded dev score,
\* whether the loop broke early or ran out
C1_BestRestored ==
    (Returned /\ t.dev_ckpt /\ t.X_dev # None /\ t.last_epoch_opt # NoEpoch)
    => /\ self.word_model = [Net(self.word_dict.s, NoWeights)
                                EXCEPT !.steps = t.last_epoch_opt + 1]
       /\ self.char_model = [Net(self.char_dict.s, NoWeights)
                                EXCEPT !.steps = t.last_epoch_opt + 1]
       /\ t.dev_score_opt > 0

C1_Witness ==
    /\ Returned /\ t.dev_ckpt /\ t.X_dev # None /\ t.last_epoch_opt # NoEpoch
    /\ t.broke
    /\ t.idx > t.last_epoch_opt + 1
    /\ self.word_model.steps = t.last_epoch_opt + 1

\* C2: with a dev set and dev_ckpt on, the loop breaks at the first evaluation
\* epoch that is stale, runs no epoch after it, and otherwise runs all n_epochs
\* epochs; with patience 2, no delay, an evaluation every epoch and the one
\* improvement at epoch 1 it breaks at epoch 4
C2_HaltsAtFirstStale ==
    (t.X_dev # None /\ t.dev_ckpt /\ Called)
    => /\ (pc = "loop" /\ t.idx >= 0) => ~(Evaluated(t.idx) /\ Stale(t.idx))
       /\ t.broke => (LoopOver /\ Evaluated(t.idx) /\ Stale(t.idx))
       /\ (LoopOver /\ ~t.broke)
            => (t.idx = self.n_epochs - 1 /\ ~(Evaluated(t.idx) /\ Stale(t.idx)))
       /\ (LoopOver /\ self.patience = 2 /\ t.dev_ckpt_delay = 0 /\ t.print_freq = 1
             /\ t.last_epoch_opt = 1 /\ self.n_epochs > 4)
            => (t.broke /\ t.idx = 4)

C2_Witness ==
    /\ t.X_dev # None /\ t.dev_ckpt /\ pc = "conclude"
    /\ self.patience = 2 /\ t.dev_ckpt_delay = 0 /\ t.print_freq = 1
    /\ t.last_epoch_opt = 1 /\ t.broke /\ t.idx = 4 /\ self.n_epochs = MaxEpochs

\* C3 as claimed: for every print_freq >= 1 the loop breaks only after more
\* than patience dev evaluations without improvement since the last best
C3_PatienceInChecks ==
    (LoopOver /\ t.broke /\ t.print_freq >= 1)
    => Cardinality(EvalsSinceBest) > self.patience

\* C3 as amended: the loop breaks only at an evaluation more than patience
\* epochs after the epoch of the last best; that is more than patience
\* evaluations without improvement when every epoch is evaluated
C3_PatienceInEpochs ==
    (LoopOver /\ t.broke)
    => /\ t.idx - t.last_epoch_opt > self.patience
       /\ Evaluated(t.idx)
       /\ t.print_freq = 1 => Cardinality(EvalsSinceBest) > self.patience

C3_Witness ==
    /\ pc = "conclude" /\ t.broke /\ t.print_freq > 1
    /\ self.patience > 0
    /\ Cardinality(EvalsSinceBest) = 1

NextPersist ==
    \/ NewInstance({2})
    \/ TrainBegin({Array1(<<10>>)}, {c1}, PersistKwargs, TrainArgs({0}, {TRUE}, {0}, {None}))
    \/ TrainEpoch({0})
    \/ TrainEnd
    \/ Save(ModelNames, SaveDirs)
    \/ Load(ModelNames, SaveDirs)
    \/ Remove

SpecPersist == Init /\ [][NextPersist]_vars

NextTargets ==
    \/ IsNew(self) /\ TrainBegin(TargetYs, {c1}, TargetKwargs, TrainArgs({0}, {TRUE}, {0}, {None}))
    \/ TrainEpoch({0})
    \/ TrainEnd

SpecTargets == Init /\ [][NextTargets]_vars

NextDict ==
    \/ CreateDict(DictSplits)
    \/ TrainBegin({Array1(<<10>>)}, {c2}, DictKwargs, TrainArgs({0}, {TRUE}, {0}, {None}))
    \/ TrainEpoch({0})
    \/ TrainEnd

SpecDict == Init /\ [][NextDict]_vars

NextEmb ==
    \/ IsNew(self) /\ TrainBegin(LoopYs, {c1}, LoadEmbKwargs,
                                 TrainArgs({0, 1}, {TRUE}, {0}, {None, <<<<c3>>>>}))
    \/ TrainEpoch({0, 1})
    \/ TrainEnd
    \/ LoadDict

SpecEmb == Init /\ [][NextEmb]_vars

----------------------------------------------------------------------------
(* Persistence: C4, C5, C6 *)

CheckpointFiles == {KwargsFile, DictsFile, WordFile, CharFile}

\* the attributes of an instance that differ between a and b
Differing(a, b) ==
    {k \in DOMAIN a \cup DOMAIN b :
        ~(k \in DOMAIN a /\ k \in DOMAIN b /\ a[k] = b[k])}

\* no file is one that a failed save() left empty
Written(files) == \A f \in DOMAIN files : files[f] # <<>>

\* C4: a load(only_param=False) that finds one of the four files absent raises
\* the file-not-found error and leaves every attribute of the instance as it
\* was; one that returns has replaced them all by what the files hold
C4_LoadAllOrNothing ==
    [][(last'.op = "load" /\ ~last'.only_param /\ Written(fs))
       => IF \E f \in CheckpointFiles :
                FileOf(last'.save_dir, last'.model_name, f) \notin DOMAIN fs
          THEN last'.outcome = "IOError" /\ self' = self
          ELSE last'.outcome = NoExc
               => /\ self'.model_kwargs
                        = fs[FileOf(last'.save_dir, last'.model_name, KwargsFile)][1]
                  /\ self'.word_model
                        = fs[FileOf(last'.save_dir, last'.model_name, WordFile)][1]
                  /\ self'.char_model
                        = fs[FileOf(last'.save_dir, last'.model_name, CharFile)][1]]_vars

\* what a round trip compares: the configuration, the tables, the matrices
\* when load_emb is set, and the networks
SavedAttrs(obj) ==
    {"model_kwargs", "word_dict", "char_dict", "word_model", "char_model"}
    \cup ConfigKeys
    \cup (IF obj.load_emb THEN {"word_emb", "char_emb"} ELSE {})

SameModel(a, b) ==
    \A k \in SavedAttrs(b) : k \in DOMAIN a /\ a[k] = b[k]

C6_OnlyParamFrame ==
    [][(last'.op = "load" /\ last'.only_param)
       => /\ Differing(self, self') \subseteq {"word_model", "char_model"}
          /\ last'.opened \cap {KwargsFile, DictsFile} = {}]_vars

\* the networks of another checkpoint were loaded into a trained instance
\* while the two pickle files of that checkpoint were absent
C6_Witness ==
    /\ last.op = "load" /\ last.only_param /\ last.outcome = NoExc
    /\ Returned
    /\ FileOf(last.save_dir, last.model_name, KwargsFile) \notin DOMAIN fs
    /\ FileOf(last.save_dir, last.model_name, DictsFile) \notin DOMAIN fs
    /\ self.word_model.num_tokens # self.word_dict.s

----------------------------------------------------------------------------
(* The targets of train(): C7, C8, C9 *)

TargetErrors == {"ValueError: cardinality", "ValueError: row-stochastic", "ValueError: values"}

\* C7: a train() call whose target cardinality differs from the cardinality of
\* the model ends in the ValueError about mismatching cardinalities
C7_MismatchIsValueError ==
    (last.op = "train" /\ target_cardinality(t.Y_train) # self.cardinality)
    => last.outcome = "ValueError: cardinality"

\* a row that is not a distribution, a value that is not a probability
Malformed(Y, cardinality) ==
    \/ cardinality > 2 /\ \E i \in 1..Len(Y.rows) : Sum(Y.rows[i]) # 10
    \/ \E i \in 1..Len(Y.rows) : \E j \in 1..Len(Y.rows[i]) :
            Y.rows[i][j] < 0 \/ Y.rows[i][j] > 10

\* C8: a train() call whose targets have the cardinality of the model ends in
\* a ValueError exactly when the targets are malformed
C8_RejectsMalformed ==
    (last.op = "train" /\ target_cardinality(t.Y_train) = self.cardinality)
    => (last.outcome \in TargetErrors
            <=> Malformed(reshape_marginals(t.Y_train), self.cardinality))

\* C9: a train() call that rejects its targets leaves every attribute of the
\* instance as it was
C9_RejectsBeforeChange ==
    [][(last'.op = "train" /\ last'.outcome \in TargetErrors) => self' = self]_vars

----------------------------------------------------------------------------
(* The reserved markers: C10 *)

Entries(table) == DOMAIN table.d

MarkersFirst(table, markers) ==
    \A w \in Entries(table) \ markers :
        \A m \in markers : m \in Entries(table) /\ table.d[m] < table.d[w]

\* C10: in every state that the calls made so far reached without raising,
\* each marker of a table is in the table with an ID lower than the ID of
\* every data entry of the table
C10_MarkersFirst ==
    ~raised
    => /\ hasattr(self, "word_dict")
            => MarkersFirst(self.word_dict, SeqToSet(word_paddings))
       /\ hasattr(self, "char_dict")
            => MarkersFirst(self.char_dict, SeqToSet(char_marker))

----------------------------------------------------------------------------
(* Pretrained embeddings: C11, C12 *)

\* the tokens, after placeholder substitution, that have a line in the file
InFile(path, pairs) ==
    {apply_replace(EmbLines(path)[i].tok, pairs) : i \in 1..Len(EmbLines(path))}

\* C11: the coverage count that load_dict prints, on an instance on which no
\* call has raised, is the number of distinct
\* tokens of word_dict_all that have a line in the word embedding file after
\* placeholder substitution
C11_CoverageCount ==
    (last.op = "load_dict" /\ ~raised /\ last.printed # <<>>)
    => last.printed
         = <<Cardinality(self.word_dict_all
                            \cap InFile(self.word_emb_path, self.replace))>>

\* the IDs, in a table, of the tokens that have a line in the file
FileIds(tab, path, pairs) ==
    {tab.d[tok] : tok \in InFile(path, pairs) \cap DOMAIN tab.d}

\* the rows of a matrix that are not at their random initial value
Overwritten(emb) == {i \in DOMAIN emb : emb[i] # RandRow(i)}

\* C12: once load_embeddings has run, on an instance on which no call has
\* raised, the matrices have a row for every ID of their table, and the rows
\* that are not at their random initial value are exactly the rows of the
\* tokens that have a line in the file after placeholder substitution
C12_RowsFromFile ==
    (hasattr(self, "word_emb") /\ ~raised)
    => /\ DOMAIN self.word_emb = 0..(self.word_dict.s - 1)
       /\ DOMAIN self.char_emb = 0..(self.char_dict.s - 1)
       /\ Overwritten(self.word_emb)
            = FileIds(self.word_dict, self.word_emb_path, self.replace)
       /\ Overwritten(self.char_emb)
            = FileIds(self.char_dict, self.char_emb_path, self.replace)

\* a token of the word table has no line in the file and its row is at its
\* random value, another row was taken from the file, and a line of the file
\* names a token that is not in the table
C12_Witness ==
    /\ hasattr(self, "word_emb") /\ ~raised
    /\ A \in DOMAIN self.word_dict.d
    /\ A \notin InFile(self.word_emb_path, self.replace)
    /\ self.word_emb[self.word_dict.d[A]] = RandRow(self.word_dict.d[A])
    /\ Overwritten(self.word_emb) # {}
    /\ InFile(self.word_emb_path, self.replace) \ DOMAIN self.word_dict.d # {}

----------------------------------------------------------------------------
(* The checkpoint of the best epoch: C14 *)

\* the two parameter files of the run hold the networks as they were after
\* epoch i
CheckpointOf(i) ==
    /\ FileOf(t.save_dir, name, WordFile) \in DOMAIN fs
    /\ FileOf(t.save_dir, name, CharFile) \in DOMAIN fs
    /\ fs[FileOf(t.save_dir, name, WordFile)]
         = <<[self.word_model EXCEPT !.steps = i + 1]>>
    /\ fs[FileOf(t.save_dir, name, CharFile)]
         = <<[self.char_model EXCEPT !.steps = i + 1]>>

\* once the run has written a checkpoint: it is the one of the first epoch
\* with the highest dev score past the delay, which last_epoch_opt and
\* dev_score_opt record
BestKept ==
    (Called /\ t.last_epoch_opt # NoEpoch)
    => /\ t.best = <<t.dev_score_opt, t.last_epoch_opt>>
       /\ CheckpointOf(t.last_epoch_opt)

\* an iteration never lowers dev_score_opt, and it changes the files,
\* last_epoch_opt or dev_score_opt only at a dev evaluation past the delay
\* whose score is above dev_score_opt, which become that epoch and that score
OnlyOnImprovement ==
    pc = "loop"
    => /\ t'.dev_score_opt >= t.dev_score_opt
       /\ (fs' # fs \/ t'.last_epoch_opt # t.last_epoch_opt
              \/ t'.dev_score_opt # t.dev_score_opt)
            => /\ t'.scored # <<>>
               /\ t'.scored[1] > t.dev_score_opt
               /\ past_delay(t.dev_ckpt_delay, self.n_epochs, t'.idx)
               /\ t'.dev_score_opt = t'.scored[1]
               /\ t'.last_epoch_opt = t'.idx

\* C14: throughout train(), once a parameter checkpoint has been written in the
\* run it holds the networks of the first dev-evaluated epoch past the delay
\* with the highest dev score, last_epoch_opt is that epoch, dev_score_opt
\* only ever strictly increases, and an epoch that is not past the delay or
\* whose score does not exceed the best leaves the checkpoint as it is
C14_CheckpointIsBest == [][BestKept' /\ OnlyOnImprovement]_vars

\* a checkpoint of an earlier epoch has survived a later dev evaluation, past
\* the delay, that got the same score, in a run that has a delay
C14_Witness ==
    /\ pc \in {"loop", "conclude"}
    /\ t.last_epoch_opt # NoEpoch /\ t.last_epoch_opt < t.idx
    /\ t.scored = <<t.dev_score_opt>>
    /\ t.dev_ckpt_delay > 0
    /\ CheckpointOf(t.last_epoch_opt)
    /\ self.word_model.steps = t.idx + 1

----------------------------------------------------------------------------
(* The vocabulary of create_dict: C13 *)

\* the table holds nothing but the markers and the entries of the training split
OnlyTrain(table, markers, entries) ==
    Entries(table) \subseteq (SeqToSet(markers) \cup SeqToSet(entries))

\* C13: a create_dict call, whatever its two flags, returns, and for each
\* enabled granularity the training table holds only the reserved markers and
\* entries of the training split while the lookup set is the union of the
\* entries of all the dev/test candidate sets
C13_DictPerFlag ==
    last.op = "create_dict"
    => /\ last.outcome = NoExc
       /\ last.args.word
            => /\ OnlyTrain(self.word_dict, word_paddings, WordsOf(last.args.splits.train))
               /\ self.word_dict_all
                    = SeqToSet(WordsOf(Flatten(last.args.splits.test)))
       /\ last.args.char
            => /\ OnlyTrain(self.char_dict, char_marker, CharsOf(last.args.splits.train))
               /\ self.char_dict_all
                    = SeqToSet(CharsOf(Flatten(last.args.splits.test)))

----------------------------------------------------------------------------
(* The vocabulary during a train() call: C15 *)

\* a train() call is in its loop or between the loop and its return
InRun(p) == p \in {"loop", "conclude"}

\* the networks were built for as many tokens as the tables hold, and with
\* load_emb the matrices have one row per ID
Sized(obj) ==
    /\ obj.word_model.num_tokens = obj.word_dict.s
    /\ obj.char_model.num_tokens = obj.char_dict.s
    /\ obj.load_emb
         => /\ DOMAIN obj.word_emb = 0..(obj.word_dict.s - 1)
            /\ DOMAIN obj.char_emb = 0..(obj.char_dict.s - 1)

\* in the encoding of the dev candidates, a token and a char n-gram that the
\* tables do not hold have the unknown ID
UnseenUnknown(obj, tr) ==
    \A i \in 1..Len(tr.X_w_dev) : \A j \in 1..Len(tr.X_w_dev[i]) :
        /\ SentsOf(tr.X_dev[1])[i][j] \notin DOMAIN obj.word_dict.d
             => tr.X_w_dev[i][j] = unknown_symbol
        /\ \A k \in 1..Len(tr.X_c_dev[i][j]) :
             GramsOf(SentsOf(tr.X_dev[1]), obj.char_gram)[i][j][k]
                    \notin DOMAIN obj.char_dict.d
             => tr.X_c_dev[i][j][k] = unknown_symbol

\* C15: from the first epoch of a train() call to its return the networks
\* and, with load_emb, the matrices have as many rows as the tables, whose
\* size had stopped growing before they were allocated; no step of the loop,
\* a dev evaluation included, changes the size of a table, and a dev token
\* that the tables do not hold is encoded as the unknown ID
C15_VocabularyFixed ==
    [][(InRun(pc) \/ InRun(pc'))
        => /\ Sized(self')
           /\ UnseenUnknown(self', t')
           /\ InRun(pc) => /\ self'.word_dict.s = self.word_dict.s
                           /\ self'.char_dict.s = self.char_dict.s]_vars

\* the second epoch of a run with pretrained embeddings has scored a dev set
\* in which one token is unseen, and encoded as unknown, and another is in the
\* table only because load_dict added it
C15_Witness ==
    /\ InRun(pc) /\ t.idx >= 1 /\ self.load_emb
    /\ t.X_w_dev # <<>>
    /\ \E j \in 1..Len(t.X_w_dev[1]) :
            /\ SentsOf(t.X_dev[1])[1][j] \notin DOMAIN self.word_dict.d
            /\ t.X_w_dev[1][j] = unknown_symbol
    /\ \E j \in 1..Len(t.X_w_dev[1]) :
            /\ SentsOf(t.X_dev[1])[1][j] \in DOMAIN self.word_dict.d
            /\ SentsOf(t.X_dev[1])[1][j] \notin SeqToSet(SentsOf(t.X_train)[1])
    /\ Sized(self)

====
